---- MODULE Spec2Model ----
(***************************************************************************)
(* sync_telechat: main with its checks of the command line, the agenda     *)
(* source (fetchAgenda / fetch_iesg_agenda), the fetch coordinator         *)
(* (fetchDocs / fetch_docs), the retrieval tasks it launches (fetchDoc /   *)
(* fetch_doc) and the part of main that prints the outcomes and exits.     *)
(*                                                                         *)
(* Two variants of the program are in the repository.  The JSON variant    *)
(* checks its base directory, decodes agenda.json and closes the result    *)
(* channel when the collection loop ends (ReturnClosing); the HTML variant *)
(* checks nothing, scans the agenda page token by token and returns from   *)
(* the loop without closing the channel (Return).  The coordinator and the *)
(* tasks are otherwise the same code.                                      *)
(*                                                                         *)
(* Specifications: Spec (runs of the coordinator on any agenda, one after  *)
(* the other), FairSpec (one run, the timer fires), FixedSpec (one run in  *)
(* a fixed environment), RetrySpec (runs after failed downloads),          *)
(* AgendaSpec (the agenda source alone), MainSpec (the whole program).     *)
(***************************************************************************)
EXTENDS Integers, Sequences, FiniteSets, TLC

\* ------------------------------------------------------------------ bounds
\* Most (date key, identifier) pairs an agenda holds.
MaxTasks == 2

\* Most sections of a JSON agenda.
MaxSections == 2

\* Most tokens of an HTML page given to the scanner on its own.
MaxTokens == 6

\* ------------------------------------------------------------ value spaces
kUnknownTelechat == "Unknown-date"

kTelechat == "2017-04-27"

Dates == {kTelechat, kUnknownTelechat}

kDraft == "draft-foo-01"

Docs == {kDraft, "draft-bar-02"}

RECURSIVE SumLen(_, _)
SumLen(f, S) ==
    IF S = {} THEN 0
    ELSE LET d == CHOOSE x \in S : TRUE
         IN  Len(f[d]) + SumLen(f, S \ {d})

SeqsUpTo(n) == UNION {[1..k -> Docs] : k \in 0..n}

\* The coordinator and the tasks use date keys and identifiers as opaque
\* strings (a map key, a path element), so agendas are taken up to renaming:
\* of the two date keys the first has the longer list, and the first
\* identifier listed is kDraft.
Canonical(a) ==
    /\ kUnknownTelechat \in DOMAIN a =>
          /\ kTelechat \in DOMAIN a
          /\ Len(a[kTelechat]) >= Len(a[kUnknownTelechat])
    /\ \A d \in DOMAIN a :
          /\ a[d] # <<>>
          /\ (d = kTelechat \/ kTelechat \notin DOMAIN a \/ a[kTelechat] = <<>>)
          => a[d][1] = kDraft

\* map[string][]string: the maps from some date keys to identifier lists.
Agendas ==
    {a \in UNION {[D -> SeqsUpTo(MaxTasks)] : D \in SUBSET Dates} :
        SumLen(a, DOMAIN a) <= MaxTasks /\ Canonical(a)}

\* The (date key, identifier) pairs of an agenda, one per listing.
AllPairs == Dates \X (1..MaxTasks)

Pairs(a) == {p \in AllPairs : p[1] \in DOMAIN a /\ p[2] <= Len(a[p[1]])}

\* ------------------------------------------------------------------- state
VARIABLES
    documents,   \* the agenda handed to the coordinator
    dirs,        \* baseDir/<date>: "absent", "dir" or "file" (a non-directory)
    files,       \* baseDir/<date>/<doc>.pdf: "absent", "empty", "partial", "full"
    mpc,         \* position of the main goroutine
    prepared,    \* date keys whose os.Mkdir has been done
    doccount,    \* fetchDocs' doccount
    items,       \* fetchDocs' items
    senders,     \* for each entry of items, the task it came from (<<>>: the timer)
    closed,      \* the result channel has been closed
    tpc,         \* position of each retrieval task
    tmsg,        \* the outcome message a task is about to send / has sent
    created,     \* tasks whose os.Create succeeded
    requested,   \* tasks that issued http.Get
    printed,     \* lines main printed
    exitStatus,  \* -1 while the process runs, else its exit status
    prevOk,      \* paths reported "Downloaded" in the previous run's list
    variant,     \* which program runs: "json", "html"; "both" where a run
                 \* starts at the coordinator, which the two share
    basedir,     \* the base directory: "unset", "missing", "file" or "dir"
    page,        \* what the agenda URL serves; Fetched once it has been read
    env,         \* what the environment does to the operations on each path
    prevFailed,  \* paths an earlier run's list reported a failed download for
    loopDate,    \* the variable `date` of the launching loop (package level
                 \* in the HTML variant), followed where the loop runs step
                 \* by step; the tasks' parameter of the same name is tdate
    ranged,      \* date keys the launching loop has visited
    index,       \* position of the inner launching loop in
                 \* documents[loopDate]
    tdate        \* the date argument each task was started with

\* What is fixed when the process starts.
config == <<variant, basedir, env>>

\* The launching loop's own variables.
launching == <<loopDate, ranged, index>>

vars == <<documents, dirs, files, mpc, prepared, doccount, items,
          senders, closed, tpc, tmsg, created, requested, printed,
          exitStatus, prevOk, config, page, prevFailed, launching, tdate>>

Alive == exitStatus = -1

Document(t) == documents[t[1]][t[2]]

\* Mutant of Date: the task reads the launching loop's variable when it runs
\* (as a closure over the variable would) instead of its own parameter.
DateShared(t) == loopDate

\* fetchDoc's date parameter
Date(t) == tdate[t]

\* filepath.Join(basedir, date, filename)
fullname(t) == <<Date(t), Document(t)>>

Launched == {t \in AllPairs : tpc[t] # "idle"}

\* ---------------------------------------------------------------- messages
NoMsg == [kind |-> "none", date |-> "-", doc |-> "-"]

\* "%v: %v already existed."
MsgExisted(date, doc) == [kind |-> "existed", date |-> date, doc |-> doc]

\* "Error creating %v: %v"
MsgCreateErr(date, doc) == [kind |-> "createErr", date |-> date, doc |-> doc]

\* "Error while downloading %v-%v": names the url only
MsgGetErr(doc) == [kind |-> "getErr", date |-> "-", doc |-> doc]

\* "Error while downloading: %v - %v ": names the url only
MsgCopyErr(doc) == [kind |-> "copyErr", date |-> "-", doc |-> doc]

\* "%v: Downloaded %s: %d bytes."
MsgDownloaded(date, doc) == [kind |-> "downloaded", date |-> date, doc |-> doc]

\* "Timeout downloading a draft...."
TimeoutMsg == [kind |-> "timeout", date |-> "-", doc |-> "-"]

Timer == <<>>

ErrorKinds == {"createErr", "getErr", "copyErr"}

\* The agenda URL after the request: the response has been read to its end
\* (Fetched), or the request, the read or the decoding failed (Failed).
Fetched == [state |-> "fetched", err |-> "none", body |-> <<>>]

Failed == [state |-> "failed", err |-> "none", body |-> <<>>]

\* The zero value of a string variable.
NoDate == ""

\* No task has been started, none has a date argument.
NoArgs == [t \in AllPairs |-> NoDate]

\* What the environment does to the operations on a path: "ok", or the first
\* of os.Create, http.Get, io.Copy to fail; "any" leaves it open.
EnvAny == [p \in Dates \X Docs |-> "any"]

\* ------------------------------------------------------------------ initial
\* The coordinator has not started and there is no task.
Fresh ==
    /\ prepared = {}
    /\ doccount = 0
    /\ items = <<>>
    /\ senders = <<>>
    /\ closed = FALSE
    /\ tpc = [t \in AllPairs |-> "idle"]
    /\ tmsg = [t \in AllPairs |-> NoMsg]
    /\ created = {}
    /\ requested = {}
    /\ printed = <<>>
    /\ exitStatus = -1
    /\ prevOk = {}
    /\ prevFailed = {}
    /\ loopDate = NoDate
    /\ ranged = {}
    /\ index = 0
    /\ tdate = NoArgs

\* Nothing has run yet: no file has been written, the coordinator has not
\* started and there is no task.
Idle ==
    /\ files = [p \in Dates \X Docs |-> "absent"]
    /\ Fresh

\* The paths an agenda lists.
Listed(a) == {<<t[1], a[t[1]][t[2]]>> : t \in Pairs(a)}

\* The outcomes the environment can fix for a path.
EnvOutcomes == {"ok", "createErr", "getErr", "copyErr"}

\* The coordinator is entered with some agenda on some directory tree, and
\* what the file system and the network do to each listed path is fixed.
InitFixed ==
    /\ Idle
    /\ documents \in Agendas
    /\ dirs \in {f \in [Dates -> {"absent", "dir", "file"}] :
                  \A d \in Dates \ DOMAIN documents : f[d] = "absent"}
    /\ mpc = "mkdirs"
    /\ variant = "both"
    /\ basedir = "dir"
    /\ page = Fetched
    /\ env \in {e \in [Dates \X Docs -> EnvOutcomes] :
                 \A q \in (Dates \X Docs) \ Listed(documents) : e[q] = "ok"}

\* The coordinator is entered with some agenda on some directory tree.
Init ==
    /\ documents \in Agendas
    /\ dirs \in {f \in [Dates -> {"absent", "dir", "file"}] :
                  \A d \in Dates \ DOMAIN documents : f[d] = "absent"}
    /\ files = [p \in Dates \X Docs |-> "absent"]
    /\ mpc = "mkdirs"
    /\ prepared = {}
    /\ doccount = 0
    /\ items = <<>>
    /\ senders = <<>>
    /\ closed = FALSE
    /\ tpc = [t \in AllPairs |-> "idle"]
    /\ tmsg = [t \in AllPairs |-> NoMsg]
    /\ created = {}
    /\ requested = {}
    /\ printed = <<>>
    /\ exitStatus = -1
    /\ prevOk = {}
    /\ variant = "both"
    /\ basedir = "dir"
    /\ page = Fetched
    /\ env = EnvAny
    /\ prevFailed = {}
    /\ loopDate = NoDate
    /\ ranged = {}
    /\ index = 0
    /\ tdate = NoArgs

\* ------------------------------------------------------- the retrieval task
\* Mutant of TaskStat: the return after the "already existed" send is
\* missing, so the task goes on to os.Create.
TaskStatNoReturn(t) ==
    /\ Alive
    /\ tpc[t] = "stat"
    /\ IF dirs[t[1]] = "dir" /\ files[<<t[1], documents[t[1]][t[2]]>>] # "absent"
       THEN tmsg' = [tmsg EXCEPT ![t] = [kind |-> "existed", date |-> t[1],
                                          doc |-> documents[t[1]][t[2]]]]
       ELSE UNCHANGED tmsg
    /\ tpc' = [tpc EXCEPT ![t] = "create"]
    /\ UNCHANGED <<documents, dirs, files, mpc, prepared, doccount, items,
                   senders, closed, created, requested, printed, exitStatus,
                   prevOk,
                   config, page, prevFailed, launching, tdate>>

\* Mutant of TaskStat: os.Stat is given the bare file name instead of the
\* joined path, so it never finds the file the task wrote.
TaskStatWrongPath(t) ==
    /\ Alive
    /\ tpc[t] = "stat"
    /\ tpc' = [tpc EXCEPT ![t] = "create"]
    /\ UNCHANGED <<documents, dirs, files, mpc, prepared, doccount, items,
                   senders, closed, tmsg, created, requested, printed,
                   exitStatus, prevOk,
                   config, page, prevFailed, launching, tdate>>

\* Mutant of TaskStat: the file is opened with os.Create before it is looked
\* for, so a file that is there is truncated and then found.
TaskStatAfterCreate(t) ==
    /\ Alive
    /\ tpc[t] = "stat"
    /\ IF dirs[t[1]] = "dir"
       THEN /\ files' = [files EXCEPT ![<<t[1], documents[t[1]][t[2]]>>] = "empty"]
            /\ created' = created \cup {t}
            /\ tmsg' = [tmsg EXCEPT ![t] = [kind |-> "existed", date |-> t[1],
                                             doc |-> documents[t[1]][t[2]]]]
            /\ tpc' = [tpc EXCEPT ![t] = "send"]
       ELSE /\ tpc' = [tpc EXCEPT ![t] = "create"]
            /\ UNCHANGED <<files, created, tmsg>>
    /\ UNCHANGED <<documents, dirs, mpc, prepared, doccount, items, senders,
                   closed, requested, printed, exitStatus, prevOk,
                   config, page, prevFailed, launching, tdate>>

\* os.Stat(fullname): err == nil when something is there.
TaskStat(t) ==
    /\ Alive
    /\ tpc[t] = "stat"
    /\ IF dirs[Date(t)] = "dir" /\ files[fullname(t)] # "absent"
       THEN /\ tmsg' = [tmsg EXCEPT ![t] = MsgExisted(Date(t), Document(t))]
            /\ tpc' = [tpc EXCEPT ![t] = "send"]
       ELSE /\ tpc' = [tpc EXCEPT ![t] = "create"]
            /\ UNCHANGED tmsg
    /\ UNCHANGED <<documents, dirs, files, mpc, prepared, doccount,
                   items, senders, closed, created, requested, printed,
                   exitStatus, prevOk,
                   config, page, prevFailed, launching, tdate>>

\* os.Create(fullname): creates or truncates; fails when the directory is not
\* there or not a directory, and may fail for reasons of the environment.
TaskCreate(t) ==
    /\ Alive
    /\ tpc[t] = "create"
    /\ \/ /\ dirs[Date(t)] = "dir"
          /\ env[fullname(t)] # "createErr"
          /\ files' = [files EXCEPT ![fullname(t)] = "empty"]
          /\ created' = created \cup {t}
          /\ tpc' = [tpc EXCEPT ![t] = "get"]
          /\ UNCHANGED tmsg
       \/ /\ dirs[Date(t)] # "dir" \/ env[fullname(t)] \in {"any", "createErr"}
          /\ tmsg' = [tmsg EXCEPT ![t] = MsgCreateErr(Date(t), Document(t))]
          /\ tpc' = [tpc EXCEPT ![t] = "send"]
          /\ UNCHANGED <<files, created>>
    /\ UNCHANGED <<documents, dirs, mpc, prepared, doccount, items,
                   senders, closed, requested, printed, exitStatus, prevOk,
                   config, page, prevFailed, launching, tdate>>

\* Mutant of TaskGet: a failed request ends the process (a fatal log call)
\* instead of being reported on the channel.
TaskGetFatal(t) ==
    /\ Alive
    /\ tpc[t] = "get"
    /\ requested' = requested \cup {t}
    /\ \/ /\ tpc' = [tpc EXCEPT ![t] = "copy"]
          /\ UNCHANGED <<tmsg, exitStatus>>
       \/ /\ tmsg' = [tmsg EXCEPT ![t] = [kind |-> "getErr", date |-> "-",
                                          doc |-> documents[t[1]][t[2]]]]
          /\ tpc' = [tpc EXCEPT ![t] = "send"]
          /\ exitStatus' = 1
    /\ UNCHANGED <<documents, dirs, files, mpc, prepared, doccount, items,
                   senders, closed, created, printed, prevOk,
                   config, page, prevFailed, launching, tdate>>

\* Mutant of TaskGet: a failed request removes the file the task created.
TaskGetCleansUp(t) ==
    /\ Alive
    /\ tpc[t] = "get"
    /\ requested' = requested \cup {t}
    /\ \/ /\ tpc' = [tpc EXCEPT ![t] = "copy"]
          /\ UNCHANGED <<tmsg, files>>
       \/ /\ tmsg' = [tmsg EXCEPT ![t] = [kind |-> "getErr", date |-> "-",
                                          doc |-> documents[t[1]][t[2]]]]
          /\ files' = [files EXCEPT ![<<t[1], documents[t[1]][t[2]]>>] = "absent"]
          /\ tpc' = [tpc EXCEPT ![t] = "send"]
    /\ UNCHANGED <<documents, dirs, mpc, prepared, doccount, items, senders,
                   closed, created, printed, exitStatus, prevOk,
                   config, page, prevFailed, launching, tdate>>

\* http.Get(url)
TaskGet(t) ==
    /\ Alive
    /\ tpc[t] = "get"
    /\ requested' = requested \cup {t}
    /\ \/ /\ env[fullname(t)] # "getErr"
          /\ tpc' = [tpc EXCEPT ![t] = "copy"]
          /\ UNCHANGED tmsg
       \/ /\ env[fullname(t)] \in {"any", "getErr"}
          /\ tmsg' = [tmsg EXCEPT ![t] = MsgGetErr(Document(t))]
          /\ tpc' = [tpc EXCEPT ![t] = "send"]
    /\ UNCHANGED <<documents, dirs, files, mpc, prepared, doccount,
                   items, senders, closed, created, printed, exitStatus, prevOk,
                   config, page, prevFailed, launching, tdate>>

\* io.Copy(output, response.Body)
TaskCopy(t) ==
    /\ Alive
    /\ tpc[t] = "copy"
    /\ \/ /\ env[fullname(t)] # "copyErr"
          /\ files' = [files EXCEPT ![fullname(t)] = "full"]
          /\ tmsg' = [tmsg EXCEPT ![t] = MsgDownloaded(Date(t), Document(t))]
       \/ /\ env[fullname(t)] \in {"any", "copyErr"}
          /\ files' = [files EXCEPT ![fullname(t)] = "partial"]
          /\ tmsg' = [tmsg EXCEPT ![t] = MsgCopyErr(Document(t))]
    /\ tpc' = [tpc EXCEPT ![t] = "send"]
    /\ UNCHANGED <<documents, dirs, mpc, prepared, doccount, items,
                   senders, closed, created, requested, printed, exitStatus, prevOk,
                   config, page, prevFailed, launching, tdate>>

\* The process ends: its goroutines are gone.
NoTasks == [t \in AllPairs |-> "idle"]

NoMsgs == [t \in AllPairs |-> NoMsg]

\* done <- msg on a closed channel: the goroutine panics and the runtime
\* ends the process with status 2.
TaskPanic(t) ==
    /\ Alive
    /\ tpc[t] = "send"
    /\ closed
    /\ exitStatus' = 2
    /\ tpc' = NoTasks
    /\ tmsg' = NoMsgs
    /\ created' = {}
    /\ requested' = {}
    /\ UNCHANGED <<documents, dirs, files, mpc, prepared, doccount, items,
                   senders, closed, printed, prevOk,
                   config, page, prevFailed, launching, tdate>>

\* ---------------------------------------------------------- the coordinator
\* os.Mkdir(filepath.Join(basedir, date), 0777) for one date key of the range
\* loop; an error other than "exists" is glog.Fatal.  Nothing can be made
\* under a base directory that is missing or is not a directory.
Mkdir(d) ==
    /\ Alive
    /\ mpc = "mkdirs"
    /\ d \in DOMAIN documents \ prepared
    /\ \/ /\ basedir = "dir"
          /\ dirs[d] = "absent"
          /\ dirs' = [dirs EXCEPT ![d] = "dir"]
          /\ prepared' = prepared \cup {d}
          /\ UNCHANGED <<mpc, exitStatus>>
       \/ /\ basedir = "dir"
          /\ dirs[d] # "absent"
          /\ prepared' = prepared \cup {d}
          /\ UNCHANGED <<dirs, mpc, exitStatus>>
       \/ /\ dirs[d] = "absent"
          /\ mpc' = "fatal"
          /\ exitStatus' = 255
          /\ UNCHANGED <<dirs, prepared>>
    /\ UNCHANGED <<documents, files, doccount, items, senders, closed,
                   tpc, tmsg, created, requested, printed, prevOk,
                   config, page, prevFailed, launching, tdate>>

\* Mutant of Launch: doccount++ sits in the outer loop, so it counts the date
\* keys instead of the goroutines started.
LaunchCountsDates ==
    /\ Alive
    /\ mpc = "mkdirs"
    /\ prepared = DOMAIN documents
    /\ tpc' = [t \in AllPairs |-> IF t \in Pairs(documents) THEN "stat" ELSE "idle"]
    /\ doccount' = Cardinality(DOMAIN documents)
    /\ tdate' = [t \in AllPairs |-> IF t \in Pairs(documents) THEN t[1] ELSE NoDate]
    /\ mpc' = "collect"
    /\ UNCHANGED <<documents, dirs, files, prepared, items, senders,
                   closed, tmsg, created, requested, printed, exitStatus, prevOk,
                   config, page, prevFailed, launching>>

\* The launching loops, in one step: one goroutine per listing, started with
\* its date key, doccount++ for each.  (The loop variable itself matters only
\* while the loop runs: RangeDate, Go and LaunchDone take the loop step by
\* step.)
Launch ==
    /\ Alive
    /\ mpc = "mkdirs"
    /\ prepared = DOMAIN documents
    /\ tpc' = [t \in AllPairs |-> IF t \in Pairs(documents) THEN "stat" ELSE "idle"]
    /\ doccount' = Cardinality(Pairs(documents))
    /\ tdate' = [t \in AllPairs |-> IF t \in Pairs(documents) THEN t[1] ELSE NoDate]
    /\ mpc' = "collect"
    /\ UNCHANGED <<documents, dirs, files, prepared, items, senders,
                   closed, tmsg, created, requested, printed, exitStatus, prevOk,
                   config, page, prevFailed, launching>>

\* The inner launching loop has nothing left to start: the outer loop has
\* not begun, or every identifier of documents[loopDate] has its goroutine.
InnerDone ==
    \/ mpc = "mkdirs" /\ prepared = DOMAIN documents
    \/ mpc = "launch" /\ index > Len(documents[loopDate])

\* for date := range documents (for date, _ = range documents in the HTML
\* variant): the loop variable takes the next date key, in any order, while
\* the goroutines started so far run.
RangeDate(d) ==
    /\ Alive
    /\ InnerDone
    /\ d \in DOMAIN documents \ ranged
    /\ loopDate' = d
    /\ ranged' = ranged \cup {d}
    /\ index' = 1
    /\ mpc' = "launch"
    /\ UNCHANGED <<documents, dirs, files, prepared, doccount, items, senders,
                   closed, tpc, tmsg, created, requested, printed, exitStatus,
                   prevOk, config, page, prevFailed, tdate>>

\* go fetchDoc(baseDir, date, document, channel); doccount++: the arguments
\* are evaluated here, so the new goroutine gets the loop variable's value
\* of this moment as its own parameter.
Go ==
    /\ Alive
    /\ mpc = "launch"
    /\ index <= Len(documents[loopDate])
    /\ tpc' = [tpc EXCEPT ![<<loopDate, index>>] = "stat"]
    /\ tdate' = [tdate EXCEPT ![<<loopDate, index>>] = loopDate]
    /\ doccount' = doccount + 1
    /\ index' = index + 1
    /\ UNCHANGED <<documents, dirs, files, mpc, prepared, items, senders,
                   closed, tmsg, created, requested, printed, exitStatus,
                   prevOk, config, page, prevFailed, loopDate, ranged>>

\* Both launching loops are over; the loop variable keeps its last value.
LaunchDone ==
    /\ Alive
    /\ InnerDone
    /\ ranged = DOMAIN documents
    /\ mpc' = "collect"
    /\ UNCHANGED <<documents, dirs, files, prepared, doccount, items, senders,
                   closed, tpc, tmsg, created, requested, printed, exitStatus,
                   prevOk, config, page, prevFailed, launching, tdate>>

\* Mutant of LoopGuard: the loop condition off by one (<= for <).
LoopGuardOffByOne == Len(items) <= doccount

\* for len(items) < doccount
LoopGuard == Len(items) < doccount

\* Mutant of Recv: the message is taken but the sender stays in its send, as
\* if the task sent its message again.
RecvSenderRepeats(t) ==
    /\ Alive
    /\ mpc = "collect"
    /\ LoopGuard
    /\ tpc[t] = "send"
    /\ items' = Append(items, tmsg[t])
    /\ senders' = Append(senders, t)
    /\ UNCHANGED <<documents, dirs, files, mpc, prepared, doccount, closed,
                   tpc, tmsg, created, requested, printed, exitStatus, prevOk,
                   config, page, prevFailed, launching, tdate>>

\* case downloaded := <-channel: the rendezvous with task t's send.
Recv(t) ==
    /\ Alive
    /\ mpc = "collect"
    /\ LoopGuard
    /\ tpc[t] = "send"
    /\ items' = Append(items, tmsg[t])
    /\ senders' = Append(senders, t)
    /\ tpc' = [tpc EXCEPT ![t] = "done"]
    /\ UNCHANGED <<documents, dirs, files, mpc, prepared, doccount,
                   closed, tmsg, created, requested, printed, exitStatus, prevOk,
                   config, page, prevFailed, launching, tdate>>

\* Mutant of Timeout: the first timeout ends the collection (one deadline
\* for the whole loop instead of one window per wait cycle).
TimeoutGlobalDeadline ==
    /\ Alive
    /\ mpc = "collect"
    /\ LoopGuard
    /\ items' = Append(items, TimeoutMsg)
    /\ senders' = Append(senders, Timer)
    /\ mpc' = "print"
    /\ UNCHANGED <<documents, dirs, files, prepared, doccount, closed, tpc,
                   tmsg, created, requested, printed, exitStatus, prevOk,
                   config, page, prevFailed, launching, tdate>>

\* Mutant of Timeout: the timeout case records nothing and waits again.
TimeoutRecordsNothing ==
    /\ Alive
    /\ mpc = "collect"
    /\ LoopGuard
    /\ UNCHANGED vars

\* case <-time.After(time.Second * 10)
Timeout ==
    /\ Alive
    /\ mpc = "collect"
    /\ LoopGuard
    /\ items' = Append(items, TimeoutMsg)
    /\ senders' = Append(senders, Timer)
    /\ UNCHANGED <<documents, dirs, files, mpc, prepared, doccount,
                   closed, tpc, tmsg, created, requested, printed, exitStatus, prevOk,
                   config, page, prevFailed, launching, tdate>>

\* fetch_docs (HTML variant): the loop ends; return items
Return ==
    /\ Alive
    /\ variant # "json"
    /\ mpc = "collect"
    /\ ~LoopGuard
    /\ mpc' = "print"
    /\ UNCHANGED <<documents, dirs, files, prepared, doccount, items, senders,
                   closed, tpc, tmsg, created, requested, printed, exitStatus, prevOk,
                   config, page, prevFailed, launching, tdate>>

\* fetchDocs (JSON variant): the loop ends; close(channel); return items
ReturnClosing ==
    /\ Alive
    /\ variant # "html"
    /\ mpc = "collect"
    /\ ~LoopGuard
    /\ closed' = TRUE
    /\ mpc' = "print"
    /\ UNCHANGED <<documents, dirs, files, prepared, doccount, items, senders,
                   tpc, tmsg, created, requested, printed, exitStatus, prevOk,
                   config, page, prevFailed, launching, tdate>>

\* ----------------------------------------------------------------- main
\* for _, result := range results { if result != "" { Printf } }; os.Exit(0)
PrintExit ==
    /\ Alive
    /\ mpc = "print"
    /\ printed' = SelectSeq(items, LAMBDA m : m.kind # "none")
    /\ exitStatus' = 0
    /\ mpc' = "exited"
    /\ tpc' = NoTasks
    /\ tmsg' = NoMsgs
    /\ created' = {}
    /\ requested' = {}
    /\ UNCHANGED <<documents, dirs, files, prepared, doccount, items, senders,
                   closed, prevOk,
                   config, page, prevFailed, launching, tdate>>

\* The program is started again on the same base directory and agenda.
DownloadedPaths ==
    {p \in Dates \X Docs :
        \E i \in 1..Len(items) :
            /\ items[i].kind = "downloaded"
            /\ senders[i] # Timer
            /\ fullname(senders[i]) = p}

\* A new run starts on the directory tree the earlier runs left.

Rerun ==
    /\ ~Alive
    /\ prevOk' = IF mpc \in {"print", "exited"} THEN DownloadedPaths ELSE {}
    /\ mpc' = "mkdirs"
    /\ prepared' = {}
    /\ doccount' = 0
    /\ items' = <<>>
    /\ senders' = <<>>
    /\ closed' = FALSE
    /\ printed' = <<>>
    /\ exitStatus' = -1
    /\ tdate' = NoArgs
    /\ loopDate' = NoDate
    /\ ranged' = {}
    /\ index' = 0
    /\ UNCHANGED <<documents, dirs, files, tpc, tmsg, created, requested,
                   config, page, prevFailed>>

\* Paths for which the list of the run that ended reports a failed request or
\* a failed copy.
FailedPaths ==
    {p \in Dates \X Docs :
        \E i \in 1..Len(items) :
            /\ items[i].kind \in {"getErr", "copyErr"}
            /\ senders[i] # Timer
            /\ fullname(senders[i]) = p}

\* A new run starts on the directory tree the earlier runs left; the paths
\* whose download was reported as failed are remembered over all the runs.
RerunAfterFailure ==
    /\ ~Alive
    /\ prevFailed' = prevFailed \cup
                       (IF mpc \in {"print", "exited"} THEN FailedPaths ELSE {})
    /\ mpc' = "mkdirs"
    /\ prepared' = {}
    /\ doccount' = 0
    /\ items' = <<>>
    /\ senders' = <<>>
    /\ closed' = FALSE
    /\ printed' = <<>>
    /\ exitStatus' = -1
    /\ tdate' = NoArgs
    /\ loopDate' = NoDate
    /\ ranged' = {}
    /\ index' = 0
    /\ UNCHANGED <<documents, dirs, files, tpc, tmsg, created, requested,
                   prevOk, config, page>>

\* The steps of one run of the program.
NextRun ==
    \/ \E d \in Dates : Mkdir(d)
    \/ Launch
    \/ \E t \in AllPairs : Recv(t)
    \/ Timeout
    \/ Return
    \/ ReturnClosing
    \/ PrintExit
    \/ \E t \in AllPairs : TaskStat(t)
    \/ \E t \in AllPairs : TaskCreate(t)
    \/ \E t \in AllPairs : TaskGet(t)
    \/ \E t \in AllPairs : TaskCopy(t)
    \/ \E t \in AllPairs : TaskPanic(t)

Next == NextRun \/ Rerun

Spec == Init /\ [][Next]_vars

\* One run with the launching loops taken one go statement at a time: the
\* tasks started so far run while the loop variable moves on.
NextLoop ==
    \/ \E d \in Dates : Mkdir(d)
    \/ \E d \in Dates : RangeDate(d)
    \/ Go
    \/ LaunchDone
    \/ \E t \in AllPairs : Recv(t)
    \/ Timeout
    \/ Return
    \/ ReturnClosing
    \/ PrintExit
    \/ \E t \in AllPairs : TaskStat(t)
    \/ \E t \in AllPairs : TaskCreate(t)
    \/ \E t \in AllPairs : TaskGet(t)
    \/ \E t \in AllPairs : TaskCopy(t)
    \/ \E t \in AllPairs : TaskPanic(t)

\* A run of the coordinator on a tree in which earlier runs may have left
\* complete files at listed paths.
InitLoop ==
    /\ Fresh
    /\ documents \in Agendas
    /\ dirs \in {f \in [Dates -> {"absent", "dir", "file"}] :
                  \A d \in Dates \ DOMAIN documents : f[d] = "absent"}
    /\ files \in {f \in [Dates \X Docs -> {"absent", "full"}] :
                   \A q \in Dates \X Docs :
                       f[q] = "full" =>
                           (q \in Listed(documents) /\ dirs[q[1]] = "dir")}
    /\ mpc = "mkdirs"
    /\ variant = "both"
    /\ basedir = "dir"
    /\ page = Fetched
    /\ env = EnvAny

LoopSpec == InitLoop /\ [][NextLoop]_vars

\* One run in which the timer of a wait cycle fires unless a task reports
\* first, and the main goroutine goes on once the loop condition fails.
\* Nothing is assumed of the tasks: any of them may stall for ever.
FairSpec ==
    /\ Init /\ [][NextRun]_vars
    /\ WF_vars(Timeout)
    /\ WF_vars(Return \/ ReturnClosing)

\* Runs of the program one after the other on the same base directory, with
\* the failed downloads of the earlier runs remembered.
RetrySpec == Init /\ [][NextRun \/ RerunAfterFailure]_vars

\* ------------------------------------------------------- the agenda source
\* make(map[string][]string)
EmptyMap == [d \in {} |-> <<>>]

\* result[date], the nil slice when the key is not there
Get(result, date) == IF date \in DOMAIN result THEN result[date] ELSE <<>>

\* result[date] = append(result[date], docname)
AppendTo(result, date, docname) ==
    [d \in DOMAIN result \cup {date} |->
        IF d = date THEN Append(Get(result, date), docname) ELSE result[d]]

SeqsOf(S, n) == UNION {[1..k -> S] : k \in 0..n}

\* A field that is not there, or is not a string.
Null == "null"

\* -- the JSON agenda (fetchAgenda)
\* The entries of a section's "docs" list; the last one lacks its docname.
DocEntries ==
    {[docname |-> "draft-foo", rev |-> "01"],
     [docname |-> "draft-bar", rev |-> "02"],
     [docname |-> Null, rev |-> "01"]}

RECURSIVE Flatten(_)
Flatten(ss) == IF ss = <<>> THEN <<>> ELSE Head(ss) \o Flatten(Tail(ss))

\* agenda["sections"] in the order the range loop visits it: each section
\* is its "docs" list (empty when the section has none).
JsonSections ==
    {ss \in SeqsOf(SeqsOf(DocEntries, MaxTasks), MaxSections) :
        Len(Flatten(ss)) <= MaxTasks}

\* The response bodies: one that is not JSON, and the JSON objects, with or
\* without their "telechat-date" and "sections" fields.
JsonBodies ==
    {[json |-> FALSE, fields |-> {}, date |-> Null, sections |-> <<>>]}
    \cup {b \in [json : {TRUE}, fields : SUBSET {"telechat-date", "sections"},
                  date : {kTelechat}, sections : JsonSections] :
             b.fields # {"telechat-date", "sections"} => b.sections = <<>>}

\* What the agenda URL serves to the JSON variant: the request fails ("get"),
\* reading the body fails ("read"), or a body arrives.
JsonPages ==
    {[state |-> "pending", err |-> e, body |-> b] :
        e \in {"get", "read"},
        b \in {[json |-> FALSE, fields |-> {}, date |-> Null, sections |-> <<>>]}}
    \cup {[state |-> "pending", err |-> "none", body |-> b] : b \in JsonBodies}

\* fetchAgenda: the error return, the panic of a failed type assertion, or
\* the map with the one date key.
fetchAgenda(p) ==
    LET entries == Flatten(p.body.sections)
        ids == [i \in 1..Len(entries) |->
                   entries[i].docname \o "-" \o entries[i].rev]
    IN  CASE p.err # "none" \/ ~p.body.json
                 -> [status |-> "error", result |-> EmptyMap]
          [] OTHER ->
             IF \/ "telechat-date" \notin p.body.fields
                \/ "sections" \notin p.body.fields
                \/ \E i \in 1..Len(entries) : entries[i].docname = Null
             THEN [status |-> "panic", result |-> EmptyMap]
             ELSE [status |-> "ok",
                   result |-> IF entries = <<>> THEN EmptyMap
                              ELSE [d \in {p.body.date} |-> ids]]

\* -- the HTML agenda (fetch_iesg_agenda)
StartTag(data, href) ==
    [tt |-> "StartTag", data |-> data, href |-> href, text |-> ""]

TextToken(text) == [tt |-> "Text", data |-> "", href |-> "", text |-> text]

EndTag == [tt |-> "EndTag", data |-> "", href |-> "", text |-> ""]

kHeading == "IESG telechat 2017-04-27"

\* The tokens the scanner is tried on: the start tags it looks at and a few
\* texts (a text that is not a heading's or a link's own, and every other
\* kind of token, are passed over in the same way).
Tokens ==
    {StartTag("a", "/doc/draft-foo/"), StartTag("a", "/iesg/agenda/"),
     StartTag("h2", "")}
    \cup {TextToken(text) : text \in Docs \cup {kHeading}}

\* strings.HasPrefix, on the strings and prefixes that occur
HasPrefix(str, prefix) ==
    \/ prefix = "draft-" /\ str \in Docs
    \/ prefix = "/doc/draft" /\ str = "/doc/draft-foo/"

ExtractDoc(document) ==
    IF HasPrefix(document, "draft-") THEN document ELSE ""

isdoc(t) == HasPrefix(t.href, "/doc/draft")

\* regexp "IESG telechat (.*)", FindStringSubmatch: the match and its
\* group, or nil
FindStringSubmatch(telechat) ==
    IF telechat = kHeading THEN <<kHeading, kTelechat>> ELSE <<>>

ExtractDate(telechat) ==
    LET date == FindStringSubmatch(telechat)
    IN  IF date = <<>> THEN kUnknownTelechat ELSE date[2]

contains(array, item) == \E i \in 1..Len(array) : array[i] = item

\* z.Next(); string(z.Text()): the text of token i when it is a text token
\* (nothing for any other token and at the end of the input)
TextAt(z, i) == IF i <= Len(z) /\ z[i].tt = "Text" THEN z[i].text ELSE ""

\* Mutant of Scan: a heading's text is read but the current date key is left
\* as it was.
RECURSIVE ScanKeepsDate(_, _, _, _)
ScanKeepsDate(z, i, date, result) ==
    IF i > Len(z) THEN result
    ELSE IF z[i].tt = "StartTag" /\ z[i].data = "a"
    THEN IF isdoc(z[i])
         THEN LET docname == ExtractDoc(TextAt(z, i + 1))
              IN  IF docname # "" /\ ~contains(Get(result, date), docname)
                  THEN ScanKeepsDate(z, i + 2, date,
                                     AppendTo(result, date, docname))
                  ELSE ScanKeepsDate(z, i + 2, date, result)
         ELSE ScanKeepsDate(z, i + 1, date, result)
    ELSE IF z[i].tt = "StartTag" /\ z[i].data = "h2"
    THEN ScanKeepsDate(z, i + 2, date, result)
    ELSE ScanKeepsDate(z, i + 1, date, result)

\* Mutant of Scan: a document already listed under any date key is not
\* listed again (deduplication over the whole agenda).
RECURSIVE ScanGlobalDedup(_, _, _, _)
ScanGlobalDedup(z, i, date, result) ==
    IF i > Len(z) THEN result
    ELSE IF z[i].tt = "StartTag" /\ z[i].data = "a"
    THEN IF isdoc(z[i])
         THEN LET docname == ExtractDoc(TextAt(z, i + 1))
              IN  IF /\ docname # ""
                     /\ \A d \in DOMAIN result : ~contains(result[d], docname)
                  THEN ScanGlobalDedup(z, i + 2, date,
                                       AppendTo(result, date, docname))
                  ELSE ScanGlobalDedup(z, i + 2, date, result)
         ELSE ScanGlobalDedup(z, i + 1, date, result)
    ELSE IF z[i].tt = "StartTag" /\ z[i].data = "h2"
    THEN ScanGlobalDedup(z, i + 2, ExtractDate(TextAt(z, i + 1)), result)
    ELSE ScanGlobalDedup(z, i + 1, date, result)

\* The token loop, from token i on with the current date key and result.
RECURSIVE Scan(_, _, _, _)
Scan(z, i, date, result) ==
    IF i > Len(z) THEN result
    ELSE IF z[i].tt = "StartTag" /\ z[i].data = "a"
    THEN IF isdoc(z[i])
         THEN LET docname == ExtractDoc(TextAt(z, i + 1))
              IN  IF docname # "" /\ ~contains(Get(result, date), docname)
                  THEN Scan(z, i + 2, date, AppendTo(result, date, docname))
                  ELSE Scan(z, i + 2, date, result)
         ELSE Scan(z, i + 1, date, result)
    ELSE IF z[i].tt = "StartTag" /\ z[i].data = "h2"
    THEN Scan(z, i + 2, ExtractDate(TextAt(z, i + 1)), result)
    ELSE Scan(z, i + 1, date, result)

\* fetch_iesg_agenda: the empty map when the request fails, else what the
\* loop has gathered when the tokenizer reports the end or an error.
fetch_iesg_agenda(p) ==
    IF p.err = "get" THEN EmptyMap
    ELSE Scan(p.body, 1, kUnknownTelechat, EmptyMap)

\* What the agenda URL serves to the HTML variant: the request fails, or the
\* tokens of body arrive, followed by the end of the page ("none") or by a
\* read error ("read").
HtmlPagesOf(bodies) ==
    {[state |-> "pending", err |-> "get", body |-> <<>>]}
    \cup {[state |-> "pending", err |-> e, body |-> z] :
             e \in {"none", "read"}, z \in bodies}

\* A page as the agenda site writes it: headings and draft links, each with
\* its text and its end tag.
Elements ==
    {<<StartTag("h2", ""), TextToken(text), EndTag>> :
        text \in {kHeading, "Other business"}}
    \cup {<<StartTag("a", "/doc/draft-foo/"), TextToken(doc), EndTag>> :
             doc \in Docs}

\* The pages of at most MaxTasks draft links.
HtmlBodies ==
    {Flatten(es) : es \in
        {x \in SeqsOf(Elements, MaxTasks + 1) :
            Cardinality({i \in 1..Len(x) : x[i][1].data = "a"}) <= MaxTasks}}

\* ------------------------------------------------- main, up to the agenda
\* parseFlags (JSON variant: an empty --basedir is log.Fatal) / flag.Parse
\* (HTML variant: no check).
ParseFlags ==
    /\ Alive
    /\ mpc = "start"
    /\ IF variant = "json"
       THEN IF basedir = "unset"
            THEN mpc' = "fatal" /\ exitStatus' = 1
            ELSE mpc' = "stat" /\ UNCHANGED exitStatus
       ELSE mpc' = "agenda" /\ UNCHANGED exitStatus
    /\ UNCHANGED <<documents, dirs, files, prepared, doccount, items, senders,
                   closed, tpc, tmsg, created, requested, printed, prevOk,
                   config, page, prevFailed, launching, tdate>>

\* JSON variant: os.Stat(basedir); an error is reported through usage(),
\* which exits with status 2.  Whatever os.Stat finds is accepted.
StatBase ==
    /\ Alive
    /\ mpc = "stat"
    /\ IF basedir = "missing"
       THEN mpc' = "fatal" /\ exitStatus' = 2
       ELSE mpc' = "agenda" /\ UNCHANGED exitStatus
    /\ UNCHANGED <<documents, dirs, files, prepared, doccount, items, senders,
                   closed, tpc, tmsg, created, requested, printed, prevOk,
                   config, page, prevFailed, launching, tdate>>

\* JSON variant: telechats, err := fetchAgenda(opts.baseurl); an error is
\* log.Fatalf (status 1), a panic ends the process with status 2.
FetchAgenda ==
    /\ Alive
    /\ mpc = "agenda"
    /\ variant = "json"
    /\ LET r == fetchAgenda(page)
       IN  CASE r.status = "ok" ->
                  /\ documents' = r.result
                  /\ page' = Fetched
                  /\ mpc' = "mkdirs"
                  /\ UNCHANGED exitStatus
             [] r.status = "error" ->
                  /\ page' = Failed
                  /\ mpc' = "fatal"
                  /\ exitStatus' = 1
                  /\ UNCHANGED documents
             [] OTHER ->
                  /\ page' = Failed
                  /\ mpc' = "fatal"
                  /\ exitStatus' = 2
                  /\ UNCHANGED documents
    /\ UNCHANGED <<dirs, files, prepared, doccount, items, senders, closed,
                   tpc, tmsg, created, requested, printed, prevOk, config,
                   prevFailed, launching, tdate>>

\* HTML variant: telechats := fetch_iesg_agenda(baseurl)
FetchIesgAgenda ==
    /\ Alive
    /\ mpc = "agenda"
    /\ variant = "html"
    /\ documents' = fetch_iesg_agenda(page)
    /\ page' = IF page.err = "none" THEN Fetched ELSE Failed
    /\ mpc' = "mkdirs"
    /\ UNCHANGED <<dirs, files, prepared, doccount, items, senders, closed,
                   tpc, tmsg, created, requested, printed, exitStatus, prevOk,
                   config, prevFailed, launching, tdate>>

\* The agenda source on its own: either variant is about to fetch, the HTML
\* variant from any sequence of tokens.
InitAgenda ==
    /\ Idle
    /\ documents = EmptyMap
    /\ dirs = [d \in Dates |-> "absent"]
    /\ mpc = "agenda"
    /\ variant \in {"json", "html"}
    /\ basedir = "dir"
    /\ env = EnvAny
    /\ IF variant = "json"
       THEN page \in JsonPages
       ELSE \/ page = [state |-> "pending", err |-> "get", body |-> <<>>]
            \/ \E k \in 0..MaxTokens : \E z \in [1..k -> Tokens] :
                   \E e \in {"none", "read"} :
                       page = [state |-> "pending", err |-> e, body |-> z]

AgendaSpec == InitAgenda /\ [][FetchAgenda \/ FetchIesgAgenda]_vars

\* The whole program, from the command line on.  The HTML variant has a
\* default for --basedir, so for it basedir is the state of the directory in
\* effect.
InitMain ==
    /\ Idle
    /\ documents = EmptyMap
    /\ dirs = [d \in Dates |-> "absent"]
    /\ mpc = "start"
    /\ variant \in {"json", "html"}
    /\ basedir \in IF variant = "json"
                   THEN {"unset", "missing", "file", "dir"}
                   ELSE {"missing", "file", "dir"}
    /\ env = EnvAny
    /\ page \in IF variant = "json" THEN JsonPages
                ELSE HtmlPagesOf(HtmlBodies)

NextMain ==
    \/ ParseFlags
    \/ StatBase
    \/ FetchAgenda
    \/ FetchIesgAgenda
    \/ NextRun

MainSpec == InitMain /\ [][NextMain]_vars

\* One run of the coordinator in an environment fixed beforehand.
FixedSpec == InitFixed /\ [][NextRun]_vars

\* ------------------------------------------------------------------ claims
\* The coordinator has left the collection loop and returned items.
Returned == mpc \in {"print", "exited"}

\* Positions of items that hold task t's message / a timeout marker.
SlotsOf(t) == {i \in 1..Len(senders) : senders[i] = t}

Markers == {i \in 1..Len(senders) : senders[i] = Timer}

\* C1: the list the coordinator returns has exactly one entry per
\* (date key, identifier) listing of the agenda, in every interleaving of the
\* tasks and the timer.
C1_OutcomeCount ==
    Returned =>
        /\ Len(items) = Cardinality(Pairs(documents))
        /\ Len(items) = SumLen(documents, DOMAIN documents)

\* C1 witness: a returned list for two listings, one entry a timeout marker
\* and one a task's outcome.
C1_Witness ==
    /\ Returned
    /\ Cardinality(Pairs(documents)) = 2
    /\ Markers # {}
    /\ \E t \in Pairs(documents) : SlotsOf(t) # {}

\* C2 as stated: in every interleaving the returned list holds exactly one
\* outcome produced for each listing of the agenda.
C2_ExactlyOnePerPair ==
    Returned => \A t \in Pairs(documents) : Cardinality(SlotsOf(t)) = 1

\* C2 amended: the list never holds two outcomes of one listing; every entry
\* is either the message of a launched task or the timeout marker; and when
\* the coordinator returns, the listings with no outcome in the list are as
\* many as the timeout markers (so each listing has exactly one outcome when
\* no wait cycle timed out).
C2_AtMostOnePerPair ==
    /\ Len(senders) = Len(items)
    /\ \A t \in AllPairs : Cardinality(SlotsOf(t)) <= 1
    /\ \A i \in 1..Len(items) :
          IF senders[i] = Timer
          THEN items[i] = TimeoutMsg
          ELSE /\ senders[i] \in Pairs(documents)
               /\ Alive => items[i] = tmsg[senders[i]]
               /\ items[i].kind \notin {"none", "timeout"}
    /\ Returned =>
          Cardinality({t \in Pairs(documents) : SlotsOf(t) = {}})
              = Cardinality(Markers)

\* C2 witness: a returned list in which a timeout marker stands where the
\* outcome of a listing is missing, next to a listing that did report.
C2_Witness ==
    /\ Returned
    /\ \E t \in Pairs(documents) : SlotsOf(t) = {} /\ tpc[t] = "send"
    /\ \E t \in Pairs(documents) : SlotsOf(t) # {}
    /\ Cardinality(Markers) = 1

\* C3 as stated (the part about the send completing): a task is never left
\* in its send once the coordinator has stopped receiving.
C3_NoSendLeftBlocked ==
    Returned => \A t \in AllPairs : tpc[t] # "send"

\* C3 amended: every task prepares one message on the control path it takes
\* and sends only that one; the send completes at most once, and only by a
\* receive of the collection loop.  (A send still pending when the loop ends
\* is never completed.)
C3_SendsOnce ==
    /\ [](\A t \in AllPairs :
            /\ (tmsg[t] # NoMsg) <=> (tpc[t] \in {"send", "done"})
            /\ Alive => ((tpc[t] = "done") <=> (Cardinality(SlotsOf(t)) = 1))
            /\ Cardinality(SlotsOf(t)) <= 1)
    /\ [][\A t \in AllPairs :
            /\ (tmsg[t] # NoMsg /\ Alive /\ Alive') => tmsg'[t] = tmsg[t]
            /\ (tpc[t] = "send" /\ tpc'[t] = "done") =>
                  /\ mpc = "collect"
                  /\ items' = Append(items, tmsg[t])]_vars

\* C3 witness: tasks on two different control paths, one whose send has
\* completed and one still in its send after the loop has ended.
C3_Witness ==
    \E t, u \in Pairs(documents) :
        /\ tpc[t] = "done" /\ tmsg[t].kind = "downloaded"
        /\ tpc[u] = "send" /\ tmsg[u].kind = "getErr"
        /\ Returned

\* C4: a wait cycle that times out appends exactly one timeout marker and
\* nothing else, and leaves the coordinator in the collection loop with its
\* count, the channel and the tasks untouched; the loop goes on for as long
\* as entries are missing, so a task reporting in a later cycle is received.
C4_TimeoutMarker ==
    /\ [][(Len(senders') = Len(senders) + 1 /\ senders'[Len(senders')] = Timer) =>
            /\ items' = Append(items, TimeoutMsg)
            /\ mpc = "collect" /\ mpc' = "collect"
            /\ doccount' = doccount
            /\ tpc' = tpc /\ tmsg' = tmsg
            /\ closed' = closed /\ ~closed
            /\ exitStatus' = exitStatus]_vars
    /\ [](\A t \in AllPairs :
            (Alive /\ Markers # {} /\ Len(items) < doccount /\ tpc[t] = "send")
                => ENABLED Recv(t))

\* C4 witness: a list whose first entry is a timeout marker and whose second
\* entry is the outcome of a task that reported in the next wait cycle.
C4_Witness ==
    /\ Len(items) = 2
    /\ senders[1] = Timer
    /\ senders[2] # Timer
    /\ items[2].kind = "downloaded"

\* C5: if the timer of each wait cycle eventually fires, the collection loop
\* ends and the coordinator returns, whatever the tasks do (any of them may
\* never report); the loop makes at most one wait cycle per launched task.
C5_CoordinatorTerminates ==
    /\ [](Len(items) <= doccount)
    /\ [][Len(items') <= Len(items) + 1]_vars
    /\ (mpc = "collect") ~> (mpc = "print")

\* C5 witness: the coordinator has returned although no task ever reported:
\* every entry of the list is a timeout marker.
C5_Witness ==
    /\ mpc = "print"
    /\ Len(items) = 2
    /\ \A i \in 1..Len(items) : senders[i] = Timer
    /\ \A t \in Pairs(documents) : tpc[t] \in {"stat", "get"}

\* C6 as stated: a task that reports after the coordinator has returned has no
\* effect: no goroutine panics on its send and the process is not ended by it.
C6_LateSendHarmless ==
    /\ exitStatus # 2
    /\ mpc = "exited" => printed = items

\* C7 as stated: once directory preparation has succeeded the process exits
\* with status 0, whatever the outcomes and the interleaving.
C7_ExitsZero ==
    (mpc \in {"collect", "print", "exited"}) => exitStatus \in {-1, 0}

\* The path the agenda lists for listing t: its date key and identifier.
Path(t) == <<t[1], Document(t)>>

\* C8: in a run that follows a run whose list reported "Downloaded" for a
\* path, the task of every listing with that path takes the "already existed"
\* path: the only message it produces, and the only entry it contributes to
\* the list, is "already existed", and the list holds that entry whenever the
\* run returns without a timeout marker.
C8_SecondRunAlreadyExisted ==
    \A t \in Pairs(documents) :
        Path(t) \in prevOk =>
            /\ files[Path(t)] # "absent"
            /\ tpc[t] \in {"idle", "stat", "send", "done"}
            /\ tmsg[t] \in {NoMsg, MsgExisted(t[1], Document(t))}
            /\ \A i \in SlotsOf(t) : items[i] = MsgExisted(t[1], Document(t))
            /\ (Returned /\ Markers = {}) =>
                  \E i \in 1..Len(items) : items[i] = MsgExisted(t[1], Document(t))

\* C8 witness: a second run has returned "already existed" for a path the
\* run before reported as downloaded.
C8_Witness ==
    \E t \in Pairs(documents) :
        /\ Path(t) \in prevOk
        /\ Returned
        /\ \E i \in SlotsOf(t) : items[i].kind = "existed"

\* A file is at task t's destination path.
Present(t) == dirs[t[1]] = "dir" /\ files[fullname(t)] # "absent"

\* C9: a task that finds a file at its destination path reports "already
\* existed" and does nothing else: the step leaves every file as it is, and
\* the task never calls os.Create or http.Get, before or after reporting.
C9_ExistingFileUntouched ==
    /\ [][\A t \in AllPairs :
            /\ (Alive /\ Alive' /\ tpc[t] = "stat" /\ tpc'[t] # "stat"
                  /\ Present(t)) =>
                  /\ tpc'[t] = "send"
                  /\ tmsg'[t] = MsgExisted(t[1], Document(t))
                  /\ files' = files /\ dirs' = dirs
                  /\ created' = created /\ requested' = requested
            /\ (Alive /\ tmsg[t].kind = "existed") =>
                  /\ files' = files \/ tpc'[t] = tpc[t]
                  /\ t \notin created' /\ t \notin requested']_vars
    /\ [](\A t \in AllPairs :
            tmsg[t].kind = "existed" =>
                /\ t \notin created /\ t \notin requested
                /\ tpc[t] \in {"send", "done"}
                /\ files[fullname(t)] # "absent")

\* C9 witness: a task has reported "already existed" for a complete file, and
\* the file is still complete.
C9_Witness ==
    \E t \in Pairs(documents) :
        /\ tpc[t] = "done"
        /\ tmsg[t].kind = "existed"
        /\ files[fullname(t)] = "full"
        /\ prevOk # {}

\* C10: a task whose os.Create, http.Get or io.Copy fails turns the failure
\* into its own error message and goes to its send; the failing step changes
\* no other task, not the coordinator, not the process, and the task makes no
\* further attempt; and a list returned without timeout markers holds every
\* task's own outcome, the failed ones' and the others'.
C10_FailureIsolated ==
    /\ [][\A t \in AllPairs :
            (Alive /\ tmsg[t] = NoMsg /\ tmsg'[t].kind \in ErrorKinds) =>
                /\ tpc'[t] = "send"
                /\ tmsg'[t].doc = Document(t)
                /\ \A u \in AllPairs \ {t} : tpc'[u] = tpc[u] /\ tmsg'[u] = tmsg[u]
                /\ mpc' = mpc /\ items' = items /\ doccount' = doccount
                /\ closed' = closed /\ exitStatus' = exitStatus]_vars
    /\ [][\A t \in AllPairs :
            (Alive /\ Alive' /\ tmsg[t].kind \in ErrorKinds) =>
                /\ tmsg'[t] = tmsg[t]
                /\ tpc'[t] \in {"send", "done"}
                /\ (t \in created') = (t \in created)
                /\ (t \in requested') = (t \in requested)]_vars
    /\ []((mpc = "print" /\ Alive /\ Markers = {}) =>
            \A t \in Pairs(documents) :
                \E i \in 1..Len(items) : senders[i] = t /\ items[i] = tmsg[t])

\* C10 witness: a returned list that holds the error outcome of one task and
\* the "Downloaded" outcome of another.
C10_Witness ==
    /\ Returned
    /\ \E t, u \in Pairs(documents) :
          /\ \E i \in SlotsOf(t) : items[i].kind \in ErrorKinds
          /\ \E j \in SlotsOf(u) : items[j].kind = "downloaded"

\* C11 as stated: directory preparation lets the run go on only when every
\* date key's path is a directory: whenever a task has been launched,
\* baseDir/<date> exists as a directory for every date key of the agenda (a
\* collision with a non-directory having aborted the run before the launch).
C11_DirectoriesReady ==
    (Alive /\ Launched # {}) => \A d \in DOMAIN documents : dirs[d] = "dir"

\* C20: while the coordinator collects, and after it, the entries of its list
\* are the received task messages plus the timeout markers, never more than
\* the tasks launched, and no task's message is counted twice; when it
\* returns with k timeout markers exactly k launched tasks have not had their
\* outcome received, and with no marker every launched task has delivered its
\* outcome and is past all its file operations.
C20_LoopAccounting ==
    LET received == {i \in 1..Len(senders) : senders[i] # Timer}
        undelivered == {t \in Launched : tpc[t] # "done"}
    IN  (Alive /\ mpc \in {"collect", "print"}) =>
          /\ Len(items) = Cardinality(received) + Cardinality(Markers)
          /\ Len(items) <= doccount
          /\ doccount = Cardinality(Launched)
          /\ \A i, j \in received : senders[i] = senders[j] => i = j
          /\ {senders[i] : i \in received} = Launched \ undelivered
          /\ mpc = "print" =>
                /\ Cardinality(undelivered) = Cardinality(Markers)
                /\ Markers = {} =>
                      \A t \in Launched :
                          /\ tpc[t] = "done"
                          /\ tmsg[t].kind # "none"
                          /\ ~ENABLED TaskCreate(t)
                          /\ ~ENABLED TaskCopy(t)

\* C20 witness: the coordinator has returned with one timeout marker and one
\* received outcome, and exactly one launched task has not delivered.
C20_Witness ==
    /\ Alive
    /\ mpc = "print"
    /\ Cardinality(Markers) = 1
    /\ Len(items) = 2
    /\ Cardinality({t \in Launched : tpc[t] # "done"}) = 1

\* C19: a task creates its file before the request and never removes it: a
\* task whose request or copy failed has created the file and the file is
\* still there, empty or as far as the copy got unless another task of the
\* same path wrote it since; and in every later run the task of a path
\* whose download an earlier run reported as failed finds the file, reports
\* "already existed" and neither creates the file nor issues a request.
C19_FailedDownloadNotRetried ==
    /\ \A t \in Pairs(documents) :
          tmsg[t].kind \in {"getErr", "copyErr"} =>
              /\ t \in created /\ t \in requested
              /\ files[Path(t)] # "absent"
    /\ \A t \in Pairs(documents) :
          Path(t) \in prevFailed =>
              /\ files[Path(t)] # "absent"
              /\ t \notin created /\ t \notin requested
              /\ tpc[t] \in {"idle", "stat", "send", "done"}
              /\ tmsg[t] \in {NoMsg, MsgExisted(t[1], Document(t))}
              /\ \A i \in SlotsOf(t) : items[i] = MsgExisted(t[1], Document(t))

\* C19 witness: a later run has reported "already existed" for a path whose
\* download failed before, and the file there is still empty.
C19_Witness ==
    \E t \in Pairs(documents) :
        /\ Path(t) \in prevFailed
        /\ files[Path(t)] = "empty"
        /\ tpc[t] = "done"
        /\ \E i \in SlotsOf(t) : items[i].kind = "existed"

\* The outcome of task t that the agenda, the directory tree and the fixed
\* environment determine when no other task touches t's path.
Determined(t) ==
    CASE dirs[t[1]] # "dir" \/ env[Path(t)] = "createErr"
             -> MsgCreateErr(t[1], Document(t))
      [] env[Path(t)] = "getErr" -> MsgGetErr(Document(t))
      [] env[Path(t)] = "copyErr" -> MsgCopyErr(Document(t))
      [] OTHER -> MsgDownloaded(t[1], Document(t))

\* C18 as stated: when no wait cycle timed out, the returned list and the
\* files left on disk depend only on the agenda, the initial directory tree
\* and the fixed per-path results, not on the interleaving: the list holds,
\* in some order, the one outcome those determine for each listing, and each
\* listed path holds the file state they determine.
C18_OrderIndependent ==
    (Returned /\ Markers = {}) =>
        /\ \A m \in {items[i] : i \in 1..Len(items)}
                    \cup {Determined(t) : t \in Pairs(documents)} :
              Cardinality({i \in 1..Len(items) : items[i] = m})
                  = Cardinality({t \in Pairs(documents) : Determined(t) = m})
        /\ \A t \in Pairs(documents) :
              files[Path(t)] =
                  CASE Determined(t).kind = "createErr" -> "absent"
                    [] Determined(t).kind = "getErr" -> "empty"
                    [] Determined(t).kind = "copyErr" -> "partial"
                    [] OTHER -> "full"

\* The agenda lists no identifier twice under one date key.
NoDuplicates(a) ==
    \A d \in DOMAIN a : \A i, j \in 1..Len(a[d]) : a[d][i] = a[d][j] => i = j

\* C12 as stated: when fetching or decoding the agenda fails, the process
\* ends with a non-zero status, no date directory has been created, no task
\* has been launched and no agenda has been handed to the coordinator.
C12_AgendaFailureFatal ==
    page.state = "failed" =>
        /\ mpc = "fatal"
        /\ exitStatus \notin {-1, 0}
        /\ documents = EmptyMap
        /\ \A d \in Dates : dirs[d] = "absent"
        /\ Launched = {}

\* C13 as stated: when the base directory is not supplied, does not exist or
\* is not a directory, the run aborts with a non-zero status before any
\* network activity and before any directory or file is created.
C13_PreflightAborts ==
    basedir # "dir" =>
        /\ page.state = "pending"
        /\ requested = {}
        /\ exitStatus # 0
        /\ mpc \notin {"mkdirs", "collect", "print", "exited"}
        /\ \A d \in Dates : dirs[d] = "absent"
        /\ \A p \in Dates \X Docs : files[p] = "absent"

\* C14 as stated: in every agenda the agenda source produces, the identifier
\* list of each date key has no duplicates.
C14_NoDuplicateIdentifiers ==
    mpc = "mkdirs" => NoDuplicates(documents)

\* C15 as stated: when the agenda source's result is passed to the
\* coordinator, no two launched tasks have the same destination path, and no
\* file is created or truncated by more than one task.
C15_DistinctDestinations ==
    /\ \A t, u \in Launched : fullname(t) = fullname(u) => t = u
    /\ \A t, u \in created : fullname(t) = fullname(u) => t = u

\* The positions of z that the z.Next() at the head of the token loop
\* reaches: every token but the one read inside a heading's or a draft
\* link's own case.
Reached(z) ==
    LET r[i \in 1..Len(z)] ==
            IF i = 1 THEN TRUE
            ELSE ~(/\ r[i - 1]
                   /\ z[i - 1].tt = "StartTag"
                   /\ \/ z[i - 1].data = "h2"
                      \/ z[i - 1].data = "a" /\ isdoc(z[i - 1]))
    IN  {i \in 1..Len(z) : r[i]}

\* The h2 headings and the draft links the scanner recognises.
Headings(z) ==
    {i \in Reached(z) : z[i].tt = "StartTag" /\ z[i].data = "h2"}

DraftLinks(z) ==
    {i \in Reached(z) :
        /\ z[i].tt = "StartTag" /\ z[i].data = "a" /\ isdoc(z[i])
        /\ ExtractDoc(TextAt(z, i + 1)) # ""}

\* The date key of the most recent heading before position i: the sentinel
\* when there is none or when no date can be extracted from it.
DateKeyOf(z, i) ==
    LET hs == {j \in Headings(z) : j < i}
    IN  IF hs = {} THEN kUnknownTelechat
        ELSE LET h == CHOOSE j \in hs : \A k \in hs : k <= j
             IN  ExtractDate(TextAt(z, h + 1))

\* C16: the HTML scan files every draft link it recognises under the date
\* key of the most recent h2 heading, under "Unknown-date" when no heading
\* came before it or when no date can be extracted from that heading; no
\* recognised link is left out of the agenda, and the agenda lists nothing
\* else.
C16_FiledUnderCurrentDate ==
    [][(mpc = "agenda" /\ variant = "html" /\ page.err # "get") =>
          LET z == page.body
              links == DraftLinks(z)
              key == [i \in links |-> DateKeyOf(z, i)]
          IN  /\ \A i \in links :
                    contains(Get(documents', key[i]), TextAt(z, i + 1))
              /\ \A d \in DOMAIN documents' :
                    \A k \in 1..Len(documents'[d]) :
                        \E i \in links :
                            /\ key[i] = d
                            /\ TextAt(z, i + 1) = documents'[d][k]]_vars

\* C16 witness: the scan has produced an agenda with a document under the
\* date of a heading and another under "Unknown-date".
C16_Witness ==
    /\ variant = "html"
    /\ mpc = "mkdirs"
    /\ DOMAIN documents = {kTelechat, kUnknownTelechat}
    /\ documents[kTelechat] = <<kDraft>>
    /\ documents[kUnknownTelechat] = <<"draft-bar-02">>

\* C17: the HTML agenda source removes duplicates within a date key only: an
\* identifier linked under two date keys is listed under both; and the
\* coordinator launches one task per listing, each with a destination path
\* of its own and reporting an outcome of its own.
C17_PerDateDedup ==
    /\ [][(mpc = "agenda" /\ variant = "html" /\ page.err # "get") =>
            LET z == page.body
                links == DraftLinks(z)
                key == [i \in links |-> DateKeyOf(z, i)]
            IN  \A i, j \in links :
                    (TextAt(z, i + 1) = TextAt(z, j + 1) /\ key[i] # key[j]) =>
                        /\ contains(Get(documents', key[i]), TextAt(z, i + 1))
                        /\ contains(Get(documents', key[j]), TextAt(z, j + 1))]_vars
    /\ []((variant = "html" /\ Alive /\ mpc \in {"collect", "print"}) =>
            /\ Launched = Pairs(documents)
            /\ doccount = SumLen(documents, DOMAIN documents)
            /\ \A t, u \in Launched : fullname(t) = fullname(u) => t = u
            /\ \A t \in Launched : \A i \in SlotsOf(t) :
                  /\ items[i].doc = Document(t)
                  /\ items[i].date \in {t[1], "-"})

\* C21: every retrieval task works with the date key under which its
\* identifier is listed, although the launching loop moves its one variable
\* on while earlier tasks run: the task's date parameter is its own date
\* key, directory preparation handled that key before the launch, the path
\* the task stats, creates and writes is <its own date key>/<identifier>,
\* every message that names a directory names its own, and a task's step
\* changes no file but the one at that path.
C21_DateFixedAtLaunch ==
    /\ [](\A t \in Launched :
            /\ t \in Pairs(documents)
            /\ Date(t) = t[1]
            /\ t[1] \in prepared
            /\ fullname(t) = <<t[1], Document(t)>>
            /\ tmsg[t].date \in {t[1], "-"}
            /\ tmsg[t].doc \in {Document(t), "-"}
            /\ t \in created => files[<<t[1], Document(t)>>] # "absent")
    /\ [][\A t \in Launched :
            (Alive' /\ tpc'[t] # tpc[t]) =>
                \A q \in Dates \X Docs :
                    files'[q] # files[q] => q = <<t[1], Document(t)>>]_vars

\* C21 witness: the launching loop is at its second date key while a task
\* started under the first has already created its file there.
C21_Witness ==
    /\ mpc = "launch"
    /\ \E t \in created :
          /\ t[1] # loopDate
          /\ files[<<t[1], Document(t)>>] # "absent"
          /\ files[<<loopDate, Document(t)>>] = "absent"

\* C17 witness: one identifier is listed under both date keys, and the two
\* tasks have each reported the download to its own date directory.
C17_Witness ==
    /\ variant = "html"
    /\ mpc = "print"
    /\ DOMAIN documents = {kTelechat, kUnknownTelechat}
    /\ documents[kTelechat] = <<kDraft>>
    /\ documents[kUnknownTelechat] = <<kDraft>>
    /\ \A d \in Dates :
          /\ files[<<d, kDraft>>] = "full"
          /\ \E i \in 1..Len(items) : items[i] = MsgDownloaded(d, kDraft)
====
